---- MODULE Spec2Model ----
(***************************************************************************)
(* Model of scripts/tavily_deep_search.py: the two-stage "deep search"     *)
(* workflow (search, then extraction of the top results, then merge).      *)
(*                                                                         *)
(* Python values are modelled as follows.                                  *)
(*   dict   a function whose DOMAIN is the set of keys that are present    *)
(*   list   a sequence                                                     *)
(*   None   the string "None" where it is compared with strings (dict      *)
(*          keys, the value of d.get(k)); an optional dict or record is a  *)
(*          sequence of length 0 (None) or 1 (the value)                   *)
(***************************************************************************)
EXTENDS Integers, Sequences, FiniteSets, TLC

VARIABLES
    pc,               \* position of deep_search
    query,            \* argument of deep_search
    topic,            \* argument of deep_search
    days,             \* argument of deep_search ("None" when not supplied)
    extract_top,      \* argument of deep_search
    cmd,              \* the function that was called
    args,             \* the keyword arguments the caller supplied to it
    requests,         \* the requests handed to urlopen so far, in order
    search_response,  \* local of deep_search, <<>> until line 88 returned
    results,          \* local of deep_search (the list the merge mutates)
    urls_to_extract,  \* local of deep_search
    extract_response, \* local of deep_search, <<>> is None
    ret,              \* the value deep_search returned, <<>> when none
    error,            \* the exception that left deep_search, <<>> when none
    fault             \* what went wrong inside the api_request call that
                      \* raised ("None" while no call has failed)

inputs == <<query, topic, days, extract_top, cmd, args>>

vars == <<pc, inputs, requests, search_response, results, urls_to_extract,
          extract_response, ret, error, fault>>

----------------------------------------------------------------------------
(* Bounds of the model *)

MaxResults == 2

MaxOutcomes == 2

MaxExtractTop == 2

----------------------------------------------------------------------------
(* Python helpers *)

None == "None"

EmptyDict == [k \in {} |-> None]

\* d.get(k, default)
Get(d, k, default) == IF k \in DOMAIN d THEN d[k] ELSE default

\* d[k] = v
DictSet(d, k, v) == (k :> v) @@ d

\* truth value of a string-or-None (line 92: `if r.get("url")`)
Truthy(v) == v # None /\ v # ""

\* s[:n] for a list s and an integer n
PySlice(s, n) ==
    LET len == Len(s)
        stop == IF n >= 0 THEN (IF n < len THEN n ELSE len)
                ELSE (IF len + n > 0 THEN len + n ELSE 0)
    IN  SubSeq(s, 1, stop)

SeqsUpTo(S, n) == UNION {[1..k -> S] : k \in 0..n}

\* the dict holding k when the optional value opt (<<>> or <<v>>) is present
OptArg(k, opt) == IF opt = <<>> THEN EmptyDict ELSE k :> opt[1]

OptField(k, vals) == {EmptyDict} \cup {k :> v : v \in vals}

----------------------------------------------------------------------------
(* The remote API: the responses and failures the endpoints can produce *)

SEARCH_URL == "https://api.tavily.com/search"

EXTRACT_URL == "https://api.tavily.com/extract"

Urls == {"u1", "u2"}

Contents == {"A", "B"}

\* one item of the search response's results array
SearchResults ==
    {u @@ [title |-> "T", content |-> "snippet", score |-> 1] :
        u \in OptField("url", Urls \cup {""})}

\* the request sets include_answer, so the response carries an answer
SearchResponses ==
    {r @@ [answer |-> "ans"] @@ u :
        r \in OptField("results", SeqsUpTo(SearchResults, MaxResults)),
        u \in OptField("usage", {[credits |-> 2]})}

\* one item of the extraction response's results array
ExtractResults ==
    {u @@ c : u \in OptField("url", Urls), c \in OptField("raw_content", Contents)}

\* one item of the extraction response's failed_results array
FailedResults == {[url |-> u, error |-> "timeout"] : u \in Urls}

\* an extraction response carries at most MaxOutcomes outcomes in all
ExtractResponses ==
    LET all == {r @@ f @@ u :
                  r \in OptField("results", SeqsUpTo(ExtractResults, MaxOutcomes)),
                  f \in OptField("failed_results", SeqsUpTo(FailedResults, MaxOutcomes)),
                  u \in OptField("usage", {[credits |-> 1]})}
    IN  {e \in all : Len(Get(e, "results", <<>>))
                       + Len(Get(e, "failed_results", <<>>)) <= MaxOutcomes}

\* what urlopen / resp.read / json.loads can raise inside api_request
NetFailures == {"HTTPError", "URLError", "TimeoutError", "JSONDecodeError"}

Topics == {"general", "news"}

\* the --days values tried: not supplied, or 7
DaysValues == {<<>>, <<7>>}

----------------------------------------------------------------------------
(* api_request *)

\* the exception api_request raises when the call fails with f
ApiRequestRaises(f) ==
    CASE f = "HTTPError" -> [type |-> "RuntimeError", msg |-> "API error"]
      [] f = "URLError"  -> [type |-> "RuntimeError", msg |-> "Network error"]
      [] OTHER           -> [type |-> f, msg |-> f]

----------------------------------------------------------------------------
(* deep_search *)

DefaultMaxResults == 5

SearchTimeout == 30

ExtractTimeout == 60

\* lines 78-86
SearchPayload(q, t, d) ==
    LET base == [query |-> q, search_depth |-> "advanced", topic |-> t,
                 max_results |-> DefaultMaxResults, include_answer |-> TRUE]
    IN  IF d # <<>> /\ d[1] # 0 /\ t \in {"news", "finance"}
        THEN DictSet(base, "days", d[1])
        ELSE base

\* variant of line 92 that filters before it slices
UrlsToExtract_filterFirst(rs, n) ==
    LET kept == SelectSeq(rs, LAMBDA r : Truthy(Get(r, "url", None)))
        top  == PySlice(kept, n)
    IN  [i \in 1..Len(top) |-> top[i]["url"]]

\* line 92
UrlsToExtract(rs, n) ==
    LET top  == PySlice(rs, n)
        kept == SelectSeq(top, LAMBDA r : Truthy(Get(r, "url", None)))
    IN  [i \in 1..Len(kept) |-> kept[i]["url"]]

\* variant of line 95 without the emptiness test
ShouldExtract_always(urls) == TRUE

\* line 95: `if urls_to_extract:`
ShouldExtract(urls) == urls # <<>>

\* lines 96-99
ExtractPayload(urls) == [urls |-> urls, extract_depth |-> "basic"]

\* `if extract_response` (lines 104, 116, 122): not None and not an empty dict
HasResponse(er) == er # <<>> /\ DOMAIN er[1] # {}

\* variant of lines 105-106 that keeps the first content seen for a url
RECURSIVE CollectContent_firstWins(_, _)
CollectContent_firstWins(outs, acc) ==
    IF outs = <<>> THEN acc
    ELSE LET url == Get(Head(outs), "url", None)
         IN  CollectContent_firstWins(Tail(outs),
                 IF url \in DOMAIN acc THEN acc
                 ELSE DictSet(acc, url, Get(Head(outs), "raw_content", "")))

\* lines 105-106, one iteration after the other
RECURSIVE CollectContent(_, _)
CollectContent(outs, acc) ==
    IF outs = <<>> THEN acc
    ELSE CollectContent(Tail(outs),
             DictSet(acc, Get(Head(outs), "url", None),
                          Get(Head(outs), "raw_content", "")))

\* lines 103-106
ExtractedContent(er) ==
    IF HasResponse(er)
    THEN CollectContent(Get(er[1], "results", <<>>), EmptyDict)
    ELSE EmptyDict

\* variant of lines 109-112 that keeps only the results it enhanced
Enhance_matchedOnly(rs, extracted_content) ==
    LET hit == SelectSeq(rs, LAMBDA r : Get(r, "url", None) \in DOMAIN extracted_content)
    IN  [i \in 1..Len(hit) |->
            DictSet(hit[i], "full_content", extracted_content[Get(hit[i], "url", None)])]

\* variant of lines 109-112 that rebuilds an enhanced result from its url
Enhance_rebuilt(rs, extracted_content) ==
    [i \in 1..Len(rs) |->
        LET url == Get(rs[i], "url", None)
        IN  IF url \in DOMAIN extracted_content
            THEN [url |-> url, full_content |-> extracted_content[url]]
            ELSE rs[i]]

\* variant of lines 109-112 that appends the enhanced copy of a result
Enhance_appended(rs, extracted_content) ==
    LET hit == SelectSeq(rs, LAMBDA r : Get(r, "url", None) \in DOMAIN extracted_content)
    IN  rs \o [i \in 1..Len(hit) |->
            DictSet(hit[i], "full_content", extracted_content[Get(hit[i], "url", None)])]

\* variant of lines 109-112 that gives every result a full_content
Enhance_always(rs, extracted_content) ==
    [i \in 1..Len(rs) |->
        DictSet(rs[i], "full_content",
                Get(extracted_content, Get(rs[i], "url", None), ""))]

\* lines 109-112
Enhance(rs, extracted_content) ==
    [i \in 1..Len(rs) |->
        LET url == Get(rs[i], "url", None)
        IN  IF url \in DOMAIN extracted_content
            THEN DictSet(rs[i], "full_content", extracted_content[url])
            ELSE rs[i]]

\* line 115
SearchCredits(sr) == Get(Get(sr, "usage", EmptyDict), "credits", 0)

\* line 116
ExtractCredits(er) ==
    IF HasResponse(er)
    THEN Get(Get(er[1], "usage", EmptyDict), "credits", 0)
    ELSE 0

\* variant of line 122 that reads a key the response does not have
FailedExtractions_wrongKey(er) ==
    IF HasResponse(er) THEN Get(er[1], "failed", <<>>) ELSE <<>>

\* line 122
FailedExtractions(er) ==
    IF HasResponse(er) THEN Get(er[1], "failed_results", <<>>) ELSE <<>>

\* variant of line 126 that forgets the extraction credits
TotalCredits_searchOnly(search_credits, extract_credits) == search_credits

\* line 126
TotalCredits(search_credits, extract_credits) == search_credits + extract_credits

\* lines 118-128
ReturnValue(q, sr, rs, er) ==
    [query              |-> q,
     answer             |-> Get(sr, "answer", None),
     results            |-> rs,
     failed_extractions |-> FailedExtractions(er),
     usage |-> [search_credits  |-> SearchCredits(sr),
                extract_credits |-> ExtractCredits(er),
                total_credits   |-> TotalCredits(SearchCredits(sr), ExtractCredits(er))]]

\* main, line 212: `except RuntimeError` is the only handler around the call
MainCatches(e) == e.type = "RuntimeError"

TypeOK ==
    /\ pc \in {"Pending", "SearchInFlight", "Stage1Complete",
               "ExtractInFlight", "Done", "Failed"}
    /\ Len(requests) <= 2
    /\ Len(search_response) <= 1
    /\ Len(extract_response) <= 1
    /\ Len(ret) <= 1
    /\ Len(error) <= 1
    /\ fault \in NetFailures \cup {None}

Init ==
    /\ pc = "Pending"
    /\ query = "q"
    /\ topic \in Topics
    /\ days \in DaysValues
    /\ extract_top \in -1..MaxExtractTop
    /\ cmd = "deep_search"
    /\ args = [query |-> query, topic |-> topic, extract_top |-> extract_top]
                 @@ OptArg("days", days)
    /\ requests = <<>>
    /\ search_response = <<>>
    /\ results = <<>>
    /\ urls_to_extract = <<>>
    /\ extract_response = <<>>
    /\ ret = <<>>
    /\ error = <<>>
    /\ fault = None

\* lines 78-88: build the search payload and issue the request
CallSearch ==
    /\ pc = "Pending"
    /\ requests' = Append(requests,
           [url |-> SEARCH_URL, payload |-> SearchPayload(query, topic, days),
            timeout |-> SearchTimeout])
    /\ pc' = "SearchInFlight"
    /\ UNCHANGED <<inputs, search_response, results, urls_to_extract, extract_response,
                   ret, error, fault>>

\* line 88 returns; lines 91-92
SearchReturns ==
    /\ pc = "SearchInFlight"
    /\ \E resp \in SearchResponses :
          /\ search_response' = <<resp>>
          /\ results' = Get(resp, "results", <<>>)
          /\ urls_to_extract' = UrlsToExtract(Get(resp, "results", <<>>), extract_top)
    /\ pc' = "Stage1Complete"
    /\ UNCHANGED <<inputs, requests, extract_response, ret, error, fault>>

\* variant of line 88 raising, with a handler that re-raises its own error
SearchRaises_wrapped ==
    /\ pc = "SearchInFlight"
    /\ \E f \in NetFailures :
          /\ fault' = f
          /\ error' = <<[type |-> "RuntimeError", msg |-> "search failed"]>>
    /\ pc' = "Failed"
    /\ UNCHANGED <<inputs, requests, search_response, results,
                   urls_to_extract, extract_response, ret>>

\* line 88 raises: deep_search has no handler, the exception leaves it
SearchRaises ==
    /\ pc = "SearchInFlight"
    /\ \E f \in NetFailures : fault' = f /\ error' = <<ApiRequestRaises(f)>>
    /\ pc' = "Failed"
    /\ UNCHANGED <<inputs, requests, search_response, results,
                   urls_to_extract, extract_response, ret>>

\* lines 102-128 with the extraction response er (<<>> when there is none)
MergeAndReturn(er) ==
    /\ results' = Enhance(results, ExtractedContent(er))
    /\ ret' = <<ReturnValue(query, search_response[1],
                            Enhance(results, ExtractedContent(er)), er)>>
    /\ pc' = "Done"

\* lines 95-100: the selection is not empty, issue the extraction request
CallExtract ==
    /\ pc = "Stage1Complete"
    /\ ShouldExtract(urls_to_extract)
    /\ requests' = Append(requests,
           [url |-> EXTRACT_URL, payload |-> ExtractPayload(urls_to_extract),
            timeout |-> ExtractTimeout])
    /\ pc' = "ExtractInFlight"
    /\ UNCHANGED <<inputs, search_response, results, urls_to_extract, extract_response,
                   ret, error, fault>>

\* lines 94-95 with an empty selection, then lines 102-128
SkipExtract ==
    /\ pc = "Stage1Complete"
    /\ ~ShouldExtract(urls_to_extract)
    /\ MergeAndReturn(extract_response)
    /\ UNCHANGED <<inputs, requests, search_response, urls_to_extract,
                   extract_response, error, fault>>

\* line 100 returns, then lines 102-128
ExtractReturns ==
    /\ pc = "ExtractInFlight"
    /\ \E resp \in ExtractResponses :
          /\ extract_response' = <<resp>>
          /\ MergeAndReturn(<<resp>>)
    /\ UNCHANGED <<inputs, requests, search_response, urls_to_extract,
                   error, fault>>

\* variant of line 100 raising, with a handler that issues the request again
ExtractRaises_retried ==
    /\ pc = "ExtractInFlight"
    /\ Len(requests) < 4
    /\ \E f \in NetFailures : fault' = f
    /\ requests' = Append(requests, requests[Len(requests)])
    /\ pc' = "ExtractInFlight"
    /\ UNCHANGED <<inputs, search_response, results, urls_to_extract,
                   extract_response, ret, error>>

\* line 100 raises: deep_search has no handler, the exception leaves it
ExtractRaises ==
    /\ pc = "ExtractInFlight"
    /\ \E f \in NetFailures : fault' = f /\ error' = <<ApiRequestRaises(f)>>
    /\ pc' = "Failed"
    /\ UNCHANGED <<inputs, requests, search_response, results,
                   urls_to_extract, extract_response, ret>>

Next ==
    \/ CallSearch
    \/ SearchReturns
    \/ SearchRaises
    \/ CallExtract
    \/ SkipExtract
    \/ ExtractReturns
    \/ ExtractRaises

Spec == Init /\ [][Next]_vars

\* deep_search runs on one thread that is never suspended for good, and a
\* call handed to urlopen returns or raises within its timeout
FairSpec == Spec /\ WF_vars(Next)

----------------------------------------------------------------------------
(* The request bodies of the commands: search, extract, crawl, map_urls,   *)
(* research, and stage 1 of deep_search.  A call is the dict args of the   *)
(* keyword arguments the caller supplied; a parameter that is not in args  *)
(* takes the default of the function signature.                            *)

IntParams == {"days", "chunks_per_source", "timeout"}

StrParams == {"time_range", "query", "instructions"}

ListParams == {"include_domains", "exclude_domains", "select_paths", "exclude_paths"}

DictParams == {"output_schema"}

\* `if v:` for the value v of parameter k
TruthyValue(k, v) ==
    CASE k \in IntParams  -> v # 0
      [] k \in StrParams  -> v # ""
      [] k \in ListParams -> Len(v) # 0
      [] k \in DictParams -> DOMAIN v # {}

\* variant that sets the key whether or not a value was supplied
AddIfTruthy_always(payload, a, k) ==
    DictSet(payload, k, IF k \in DOMAIN a THEN a[k] ELSE None)

\* `if k: payload[k] = k`, for a parameter k whose default is None
AddIfTruthy(payload, a, k) ==
    IF k \in DOMAIN a /\ TruthyValue(k, a[k])
    THEN DictSet(payload, k, a[k])
    ELSE payload

\* tavily_search.py, lines 60-79
SearchBody(a) ==
    LET base == [query               |-> a["query"],
                 search_depth        |-> Get(a, "search_depth", "basic"),
                 topic               |-> Get(a, "topic", "general"),
                 max_results         |-> Get(a, "max_results", 5),
                 include_answer      |-> Get(a, "include_answer", FALSE),
                 include_raw_content |-> Get(a, "include_raw_content", FALSE),
                 include_images      |-> Get(a, "include_images", FALSE)]
        p1 == AddIfTruthy(base, a, "days")
        p2 == AddIfTruthy(p1, a, "time_range")
        p3 == AddIfTruthy(p2, a, "chunks_per_source")
        p4 == AddIfTruthy(p3, a, "include_domains")
    IN  AddIfTruthy(p4, a, "exclude_domains")

\* tavily_extract.py, lines 58-70
ExtractBody(a) ==
    LET base == [urls           |-> a["urls"],
                 extract_depth  |-> Get(a, "extract_depth", "basic"),
                 format         |-> Get(a, "fmt", "markdown"),
                 include_images |-> Get(a, "include_images", FALSE)]
        p1 == AddIfTruthy(base, a, "query")
        p2 == AddIfTruthy(p1, a, "chunks_per_source")
    IN  AddIfTruthy(p2, a, "timeout")

\* tavily_crawl.py, lines 63-81
CrawlBody(a) ==
    LET base == [url            |-> a["url"],
                 max_depth      |-> Get(a, "max_depth", 1),
                 max_breadth    |-> Get(a, "max_breadth", 20),
                 limit          |-> Get(a, "limit", 50),
                 extract_depth  |-> Get(a, "extract_depth", "basic"),
                 format         |-> Get(a, "fmt", "markdown"),
                 allow_external |-> Get(a, "allow_external", TRUE),
                 timeout        |-> Get(a, "timeout", 150)]
        p1 == AddIfTruthy(base, a, "instructions")
        p2 == AddIfTruthy(p1, a, "chunks_per_source")
        p3 == AddIfTruthy(p2, a, "select_paths")
    IN  AddIfTruthy(p3, a, "exclude_paths")

\* tavily_sitemap.py, lines 51-64
MapBody(a) ==
    LET base == [url            |-> a["url"],
                 max_depth      |-> Get(a, "max_depth", 1),
                 max_breadth    |-> Get(a, "max_breadth", 20),
                 limit          |-> Get(a, "limit", 50),
                 allow_external |-> Get(a, "allow_external", TRUE)]
        p1 == AddIfTruthy(base, a, "instructions")
        p2 == AddIfTruthy(p1, a, "select_paths")
    IN  AddIfTruthy(p2, a, "exclude_paths")

\* tavily_research.py, lines 44-52
ResearchBody(a) ==
    LET base == [input           |-> a["input_text"],
                 model           |-> Get(a, "model", "auto"),
                 stream          |-> FALSE,
                 citation_format |-> Get(a, "citation_format", "numbered")]
    IN  AddIfTruthy(base, a, "output_schema")

\* tavily_deep_search.py, lines 78-86, for the call deep_search(**a)
DeepSearchBody(a) ==
    LET p == SearchPayload(a["query"], Get(a, "topic", "general"),
                           IF "days" \in DOMAIN a THEN <<a["days"]>> ELSE <<>>)
    IN  IF "max_results" \in DOMAIN a
        THEN DictSet(p, "max_results", a["max_results"])
        ELSE p

Commands == {"search", "extract", "crawl", "map_urls", "research", "deep_search"}

Body(c, a) ==
    CASE c = "search"      -> SearchBody(a)
      [] c = "extract"     -> ExtractBody(a)
      [] c = "crawl"       -> CrawlBody(a)
      [] c = "map_urls"    -> MapBody(a)
      [] c = "research"    -> ResearchBody(a)
      [] c = "deep_search" -> DeepSearchBody(a)

Endpoint(c) ==
    CASE c = "search"      -> SEARCH_URL
      [] c = "extract"     -> EXTRACT_URL
      [] c = "crawl"       -> "https://api.tavily.com/crawl"
      [] c = "map_urls"    -> "https://api.tavily.com/map"
      [] c = "research"    -> "https://api.tavily.com/research"
      [] c = "deep_search" -> SEARCH_URL

\* the timeout handed to urlopen
UrlopenTimeout(c) ==
    CASE c \in {"crawl", "research"} -> 180
      [] c = "deep_search"           -> SearchTimeout
      [] c = "search"                -> 30
      [] OTHER                       -> 60

MAX_URLS == 20

\* the longest list of URLs handed to extract
MaxUrlCount == 21

\* variant of tavily_extract.py line 55 that is off by one
TooManyUrls_offByOne(urls) == Len(urls) >= MAX_URLS

\* tavily_extract.py, line 55
TooManyUrls(urls) == Len(urls) > MAX_URLS

\* every dict over the keys `keys` that gives a key, when present, one of
\* the values vals[key]
RECURSIVE AllArgs(_, _)
AllArgs(keys, vals) ==
    IF keys = {} THEN {EmptyDict}
    ELSE LET k == CHOOSE x \in keys : TRUE
         IN  {a @@ b : a \in OptField(k, vals[k]), b \in AllArgs(keys \ {k}, vals)}

\* the values tried for each parameter that has a default, when supplied
SearchOptions ==
    [search_depth |-> {"advanced"}, topic |-> {"news"}, max_results |-> {10},
     include_answer |-> {TRUE}, include_raw_content |-> {TRUE},
     include_images |-> {TRUE}, days |-> {0, 7}, time_range |-> {"", "week"},
     chunks_per_source |-> {0, 3}, include_domains |-> {<<>>, <<"a.com">>},
     exclude_domains |-> {<<>>, <<"b.com">>}]

ExtractOptions ==
    [extract_depth |-> {"advanced"}, fmt |-> {"text"}, include_images |-> {TRUE},
     query |-> {"", "rag"}, chunks_per_source |-> {0, 3}, timeout |-> {0, 30}]

CrawlOptions ==
    [max_depth |-> {2}, max_breadth |-> {10}, limit |-> {5},
     extract_depth |-> {"advanced"}, fmt |-> {"text"}, allow_external |-> {FALSE},
     timeout |-> {0, 60}, instructions |-> {"", "find docs"},
     chunks_per_source |-> {0, 3}, select_paths |-> {<<>>, <<"/docs">>},
     exclude_paths |-> {<<>>, <<"/blog">>}]

MapOptions ==
    [max_depth |-> {2}, max_breadth |-> {10}, limit |-> {5},
     allow_external |-> {FALSE}, instructions |-> {"", "find docs"},
     select_paths |-> {<<>>, <<"/docs">>}, exclude_paths |-> {<<>>, <<"/blog">>}]

ResearchOptions ==
    [model |-> {"pro"}, citation_format |-> {"apa"},
     output_schema |-> {EmptyDict, [type |-> "object"]}]

DeepSearchOptions ==
    [topic |-> {"general", "news", "finance"}, max_results |-> {10},
     days |-> {0, 7}]

Options(c) ==
    CASE c = "search"      -> SearchOptions
      [] c = "extract"     -> ExtractOptions
      [] c = "crawl"       -> CrawlOptions
      [] c = "map_urls"    -> MapOptions
      [] c = "research"    -> ResearchOptions
      [] c = "deep_search" -> DeepSearchOptions

\* the positional (required) arguments of a call; the i-th URL of a list is
\* written i
Required(c) ==
    CASE c \in {"search", "deep_search"} -> {[query |-> "q"]}
      [] c = "extract"  -> {[urls |-> [i \in 1..n |-> i]] : n \in 0..MaxUrlCount}
      [] c = "research" -> {[input_text |-> "q"]}
      [] OTHER          -> {[url |-> "https://example.com"]}

Calls(c) == {r @@ o : r \in Required(c), o \in AllArgs(DOMAIN Options(c), Options(c))}

CmdInit ==
    /\ cmd \in Commands
    /\ args \in Calls(cmd)
    /\ pc = "Start"
    /\ query = "q"
    /\ topic = "general"
    /\ days = <<>>
    /\ extract_top = 1
    /\ requests = <<>>
    /\ search_response = <<>>
    /\ results = <<>>
    /\ urls_to_extract = <<>>
    /\ extract_response = <<>>
    /\ ret = <<>>
    /\ error = <<>>
    /\ fault = None

\* tavily_extract.py, lines 55-56: too many URLs, ValueError before any request
CmdRejects ==
    /\ pc = "Start"
    /\ cmd = "extract"
    /\ TooManyUrls(args["urls"])
    /\ error' = <<[type |-> "ValueError", msg |-> "Maximum URLs per request"]>>
    /\ pc' = "Raised"
    /\ UNCHANGED <<inputs, requests, search_response, results, urls_to_extract,
                   extract_response, ret, fault>>

\* the payload is built and the request handed to urlopen
CmdSends ==
    /\ pc = "Start"
    /\ ~(cmd = "extract" /\ TooManyUrls(args["urls"]))
    /\ requests' = Append(requests,
           [url |-> Endpoint(cmd), payload |-> Body(cmd, args),
            timeout |-> UrlopenTimeout(cmd)])
    /\ pc' = "Sent"
    /\ UNCHANGED <<inputs, search_response, results, urls_to_extract,
                   extract_response, ret, error, fault>>

\* urlopen and json.loads succeed, the function returns the parsed body
\* (deep_search goes on from here as SearchReturns describes)
CmdReturns ==
    /\ pc = "Sent"
    /\ \E resp \in {EmptyDict, [results |-> <<>>]} : ret' = <<resp>>
    /\ pc' = "Returned"
    /\ UNCHANGED <<inputs, requests, search_response, results, urls_to_extract,
                   extract_response, error, fault>>

\* the try/except around urlopen, the same in every script
CmdRaises ==
    /\ pc = "Sent"
    /\ \E f \in NetFailures : fault' = f /\ error' = <<ApiRequestRaises(f)>>
    /\ pc' = "Raised"
    /\ UNCHANGED <<inputs, requests, search_response, results, urls_to_extract,
                   extract_response, ret>>

CmdNext ==
    \/ CmdRejects
    \/ CmdSends
    \/ CmdReturns
    \/ CmdRaises

CmdSpec == CmdInit /\ [][CmdNext]_vars

----------------------------------------------------------------------------
(* Vocabulary of the properties *)

\* the results array of the search response, as received
Stage1Results == Get(search_response[1], "results", <<>>)

\* the extraction requests issued so far (indices into requests)
ExtractRequests == {i \in DOMAIN requests : requests[i].url = EXTRACT_URL}

SearchRequests == {i \in DOMAIN requests : requests[i].url = SEARCH_URL}

\* the search call failed: it raised and never produced a response
Stage1Failed == fault # None /\ search_response = <<>>

\* the extraction call as a whole failed: it was issued and it raised
Stage2Failed == fault # None /\ search_response # <<>>

\* deep_search has got past lines 94-100
Stage2Decided == pc \in {"ExtractInFlight", "Done"} \/ Stage2Failed

\* the identifiers sent to the extraction endpoint (none if it was not called)
SentUrls ==
    IF ExtractRequests = {} THEN <<>>
    ELSE requests[CHOOSE i \in ExtractRequests : TRUE].payload.urls

Id(r) == Get(r, "url", None)

HasId(r) == Id(r) # None /\ Id(r) # ""

Min(a, b) == IF a <= b THEN a ELSE b

Max(a, b) == IF a >= b THEN a ELSE b

----------------------------------------------------------------------------
(* C1..C5: failure handling and the selection of stage 2 *)

\* C1: when stage 1 has succeeded and the extraction call as a whole fails,
\* the workflow still ends in Done with a result, never in Failed
\* (stated for a positive extract-top bound).
C1_Stage2FailureEndsDone ==
    (Stage2Failed /\ extract_top >= 1) =>
        (pc = "Done" /\ ret # <<>> /\ error = <<>>)

\* C2: when the extraction call as a whole fails, the returned failures hold
\* exactly one entry per selected identifier and the returned results are
\* the stage-1 results, none with full content (stated for a positive
\* extract-top bound).
C2_Stage2FailureOrphans ==
    (Stage2Failed /\ extract_top >= 1) =>
        /\ ret # <<>>
        /\ Len(ret[1].failed_extractions) = Len(urls_to_extract)
        /\ \A i \in DOMAIN urls_to_extract :
              Id(ret[1].failed_extractions[i]) = urls_to_extract[i]
        /\ ret[1].results = Stage1Results

\* C3: a failure of the search call aborts the workflow: deep_search ends
\* with the very exception api_request raised, no extraction request is
\* issued, and nothing is returned.
C3_Stage1FailureAborts ==
    Stage1Failed =>
        /\ pc = "Failed"
        /\ error = <<ApiRequestRaises(fault)>>
        /\ ExtractRequests = {}
        /\ Len(requests) = 1
        /\ ret = <<>>

C3_Witness == Stage1Failed /\ pc = "Failed" /\ fault = "URLError"

\* C4: with an empty selection the extraction endpoint is never called,
\* extract credits are zero, the total equals the search credits, and the
\* failure sequence is empty.
C4_EmptySelectionSkipsStage2 ==
    (Stage2Decided /\ urls_to_extract = <<>>) =>
        /\ ExtractRequests = {}
        /\ pc = "Done"
        /\ ret[1].usage.extract_credits = 0
        /\ ret[1].usage.total_credits = SearchCredits(search_response[1])
        /\ ret[1].failed_extractions = <<>>

C4_Witness ==
    /\ pc = "Done"
    /\ urls_to_extract = <<>>
    /\ Stage1Results = <<>>
    /\ ret[1].usage.total_credits = 2

\* the first n elements of s (none when n <= 0)
FirstN(s, n) == [i \in 1..Min(Max(n, 0), Len(s)) |-> s[i]]

\* the identifiers of the elements of s that have a non-empty one, in order
NonEmptyIds(s) ==
    LET kept == SelectSeq(s, HasId) IN [i \in DOMAIN kept |-> Id(kept[i])]

\* C5 as stated: the identifiers sent to stage 2 are those of the first N
\* results that have a non-empty identifier; results without one do not
\* count towards N (stated for N >= 0).
C5_FirstNWithIdentifier ==
    (Stage2Decided /\ extract_top >= 0) =>
        SentUrls = FirstN(NonEmptyIds(Stage1Results), extract_top)

\* the slice results[:n]: the first n results, or all but the last -n
TopSlice(s, n) ==
    IF n >= 0 THEN FirstN(s, n) ELSE FirstN(s, Len(s) + n)

\* C5 amended: the identifiers sent to stage 2 are the non-empty identifiers
\* found among the first N results (the slice results[:N]), in stage-1
\* order; a result without identifier inside the slice uses up one of the N.
C5_IdentifiersAmongFirstN ==
    Stage2Decided =>
        SentUrls = NonEmptyIds(TopSlice(Stage1Results, extract_top))

\* a result without identifier precedes, inside the first N, one that is sent
C5_Witness ==
    /\ Stage2Decided
    /\ extract_top = 2
    /\ Len(Stage1Results) = 2
    /\ ~HasId(Stage1Results[1])
    /\ SentUrls = <<"u1">>

----------------------------------------------------------------------------
(* C6..C10: the merge of the extraction response into the search results *)

\* the Success outcomes of the extraction response, as received
Outcomes == Get(extract_response[1], "results", <<>>)

\* the Failure outcomes of the extraction response, as received
Failures == Get(extract_response[1], "failed_results", <<>>)

Returned == ret[1].results

\* deep_search returned after an extraction response had arrived
MergedResponse == pc = "Done" /\ extract_response # <<>>

\* outcome j is addressed to stage-1 result i.  Identifiers are compared the
\* way lines 106 and 110-111 compare them, by the value of .get("url")
Matches(j, i) == Id(Outcomes[j]) = Id(Stage1Results[i])

\* C6: the returned results have the length of the stage-1 results and the
\* same identifiers in the same order, whatever the extraction response.
C6_MergePreservesSequence ==
    pc = "Done" =>
        /\ Len(Returned) = Len(Stage1Results)
        /\ \A i \in DOMAIN Stage1Results : Id(Returned[i]) = Id(Stage1Results[i])

\* both results are enhanced from outcomes that arrived in the other order
C6_Witness ==
    /\ MergedResponse
    /\ Len(Stage1Results) = 2
    /\ Len(Outcomes) = 2
    /\ Id(Stage1Results[1]) = "u1" /\ Id(Stage1Results[2]) = "u2"
    /\ Id(Outcomes[1]) = "u2" /\ Id(Outcomes[2]) = "u1"
    /\ \A i \in 1..2 : "full_content" \in DOMAIN Returned[i]

\* C7 as stated: for every Success outcome whose identifier matches a
\* stage-1 result, the full content of that result equals the outcome's
\* content (stated for the outcomes that carry a content field and for a
\* positive extract-top bound).
C7_ContentOfEveryOutcome ==
    (MergedResponse /\ extract_top >= 1) =>
        \A j \in DOMAIN Outcomes : \A i \in DOMAIN Stage1Results :
            (/\ "url" \in DOMAIN Outcomes[j]
             /\ "raw_content" \in DOMAIN Outcomes[j]
             /\ Matches(j, i)) =>
                /\ "full_content" \in DOMAIN Returned[i]
                /\ Returned[i]["full_content"] = Outcomes[j]["raw_content"]

\* outcome j is the last one of the response for its identifier
LastForId(j) ==
    \A k \in DOMAIN Outcomes : Id(Outcomes[k]) = Id(Outcomes[j]) => k <= j

\* C7 amended: the full content of a matched result equals the content of
\* the last Success outcome of the response that carries its identifier
\* (the empty text when that outcome has no content field).
C7_ContentOfLastOutcome ==
    MergedResponse =>
        \A j \in DOMAIN Outcomes : \A i \in DOMAIN Stage1Results :
            ("url" \in DOMAIN Outcomes[j] /\ Matches(j, i) /\ LastForId(j)) =>
                /\ "full_content" \in DOMAIN Returned[i]
                /\ Returned[i]["full_content"] = Get(Outcomes[j], "raw_content", "")

\* two outcomes for u1 with different contents: the second one is attached
C7_Witness ==
    /\ MergedResponse
    /\ Len(Outcomes) = 2
    /\ Outcomes[1] = [url |-> "u1", raw_content |-> "A"]
    /\ Outcomes[2] = [url |-> "u1", raw_content |-> "B"]
    /\ Len(Stage1Results) >= 1
    /\ Id(Stage1Results[1]) = "u1"
    /\ Returned[1]["full_content"] = "B"

\* the Success outcomes that were merged into some stage-1 result
MergedOutcomes ==
    {j \in DOMAIN Outcomes : \E i \in DOMAIN Stage1Results : Matches(j, i)}

\* C8: every outcome of the extraction response is either merged into a
\* matching stage-1 result or recorded in the failure sequence
\* (|secondary| = |merged matches| + |failures|); a Success outcome that
\* matches no stage-1 result is recorded as an orphan failure (stated for
\* responses whose outcomes all carry an identifier, and for a positive
\* extract-top bound).
C8_OutcomesPartitioned ==
    (/\ MergedResponse
     /\ extract_top >= 1
     /\ \A j \in DOMAIN Outcomes : "url" \in DOMAIN Outcomes[j]) =>
        /\ Len(Outcomes) + Len(Failures)
              = Cardinality(MergedOutcomes) + Len(ret[1].failed_extractions)
        /\ \A j \in DOMAIN Outcomes \ MergedOutcomes :
              \E k \in DOMAIN ret[1].failed_extractions :
                  Id(ret[1].failed_extractions[k]) = Id(Outcomes[j])

C10_FailuresPassedThrough ==
    MergedResponse =>
        /\ Len(ret[1].failed_extractions) = Len(Failures)
        /\ \A k \in DOMAIN Failures : ret[1].failed_extractions[k] = Failures[k]
        /\ Cardinality(ExtractRequests) = 1
        /\ Len(requests) = 2

C10_Witness ==
    /\ MergedResponse
    /\ Failures = <<[url |-> "u2", error |-> "timeout"],
                    [url |-> "u1", error |-> "timeout"]>>
    /\ ret[1].failed_extractions = Failures

----------------------------------------------------------------------------
(* C11..C12: the invariants of the returned structure *)

\* the identifiers requested in stage 2
RequestedIds == {urls_to_extract[i] : i \in DOMAIN urls_to_extract}

\* the identifiers of the returned failure sequence
FailedIds ==
    {Id(ret[1].failed_extractions[k]) : k \in DOMAIN ret[1].failed_extractions}

\* the identifiers of the returned results that carry full content
EnhancedIds ==
    {Id(Returned[i]) : i \in {n \in DOMAIN Returned : "full_content" \in DOMAIN Returned[n]}}

\* C11 as stated: every returned failure references an identifier that was
\* requested in stage 2, and no failed identifier belongs to a result that
\* carries full content (stated for a positive extract-top bound).
C11_FailuresRequestedAndDisjoint ==
    (pc = "Done" /\ extract_top >= 1) =>
        /\ FailedIds \subseteq RequestedIds
        /\ FailedIds \cap EnhancedIds = {}

\* the extraction response reports outcomes for requested identifiers only,
\* and no identifier both as a success and as a failure
WellFormedExtraction ==
    LET okIds   == {Id(Outcomes[j]) : j \in DOMAIN Outcomes}
        failIds == {Id(Failures[k]) : k \in DOMAIN Failures}
    IN  /\ okIds \subseteq RequestedIds
        /\ failIds \subseteq RequestedIds
        /\ okIds \cap failIds = {}

\* C11 amended: the failure sequence is the one the extraction response
\* reported; when that response reports requested identifiers only, and none
\* both as success and as failure, every failure references a requested
\* identifier and no failed identifier carries full content.
C11_FailuresOfWellFormedResponse ==
    pc = "Done" =>
        /\ extract_response = <<>> => FailedIds = {}
        /\ (extract_response # <<>> /\ WellFormedExtraction) =>
              /\ FailedIds \subseteq RequestedIds
              /\ FailedIds \cap EnhancedIds = {}

C11_Witness ==
    /\ MergedResponse
    /\ WellFormedExtraction
    /\ RequestedIds = {"u1", "u2"}
    /\ FailedIds = {"u2"}
    /\ EnhancedIds = {"u1"}

\* the identifiers of the entries of s are pairwise distinct
DistinctIds(s) ==
    \A i \in DOMAIN s : \A j \in DOMAIN s : i # j => Id(s[i]) # Id(s[j])

\* C12 as stated: the identifiers of the returned results are pairwise
\* distinct (stated for stage-1 results that all carry an identifier, and
\* for a positive extract-top bound).
C12_ResultIdsDistinct ==
    (/\ pc = "Done"
     /\ extract_top >= 1
     /\ \A i \in DOMAIN Stage1Results : HasId(Stage1Results[i])) =>
        DistinctIds(Returned)

\* C12 amended: deep_search returns the stage-1 results without removing or
\* adding any, so the returned identifiers are pairwise distinct exactly
\* when those of the search response are.
C12_ResultIdsDistinctAsReceived ==
    pc = "Done" => (DistinctIds(Returned) <=> DistinctIds(Stage1Results))

\* two distinct identifiers, both enhanced, still distinct on return
C12_Witness ==
    /\ MergedResponse
    /\ Len(Stage1Results) = 2
    /\ DistinctIds(Stage1Results)
    /\ EnhancedIds = {"u1", "u2"}
    /\ DistinctIds(Returned)

----------------------------------------------------------------------------
(* C13: the combined usage *)

\* the credit counts a stage can report
CreditValues == {0, 1, 2}

\* the credits a response reports, 0 when it reports no usage
ReportedCredits(resp) ==
    IF "usage" \in DOMAIN resp /\ "credits" \in DOMAIN resp["usage"]
    THEN resp["usage"]["credits"] ELSE 0

\* C13: the returned usage is the sum of the two stages' credits; a stage
\* that was skipped or reported no usage counts zero (stage-1 usage A with no
\* stage 2 gives A), and the sum does not depend on which stage a count is
\* attributed to.
C13_UsageIsSum ==
    /\ pc = "Done" =>
          LET a == ReportedCredits(search_response[1])
              b == IF extract_response = <<>> THEN 0
                   ELSE ReportedCredits(extract_response[1])
          IN  /\ ret[1].usage.search_credits = a
              /\ ret[1].usage.extract_credits = b
              /\ ret[1].usage.total_credits = a + b
              /\ extract_response = <<>> => ret[1].usage.total_credits = a
    /\ \A a \in CreditValues : \A b \in CreditValues :
          /\ TotalCredits(a, b) = TotalCredits(b, a)
          /\ TotalCredits(a, 0) = a

\* the search reported 2 credits, the extraction 1
C13_Witness ==
    /\ MergedResponse
    /\ ret[1].usage.search_credits = 2
    /\ ret[1].usage.extract_credits = 1
    /\ ret[1].usage.total_credits = 3

----------------------------------------------------------------------------
(* C14: the network calls of one invocation *)

\* a request has been handed to urlopen and has neither returned nor raised
CallInFlight == pc \in {"SearchInFlight", "ExtractInFlight"}

RequestsInOrder ==
    /\ Len(requests) <= 2
    /\ pc # "Pending" => (Cardinality(SearchRequests) = 1 /\ 1 \in SearchRequests)
    /\ pc \in {"Done", "Failed"} => Cardinality(SearchRequests) = 1
    /\ Cardinality(ExtractRequests) <= 1
    /\ ExtractRequests # {} => search_response # <<>>

NoConcurrentOrRepeatedRequest ==
    /\ (CallInFlight \/ fault # None) => requests' = requests
    /\ Len(requests') <= Len(requests) + 1

\* C14: the search endpoint is called exactly once, the extraction endpoint
\* at most once and only after the search response has arrived; no request
\* is issued while another is in flight, and none after a call has failed.
C14_CallsSequentialUnrepeated ==
    [](RequestsInOrder) /\ [][NoConcurrentOrRepeatedRequest]_vars

\* both calls were made, in order, and the second one failed: nothing follows
C14_Witness ==
    /\ pc = "Failed"
    /\ Stage2Failed
    /\ Len(requests) = 2
    /\ requests[1].url = SEARCH_URL
    /\ requests[2].url = EXTRACT_URL

----------------------------------------------------------------------------
(* C15: the terminal states of an invocation *)

Terminal == pc \in {"Done", "Failed"}

\* C15: every invocation eventually reaches Done (a result is returned) or
\* Failed (an error is raised) and stays there; Done is entered only after
\* stage 1 has completed; a failure is a failure of stage 1 (stated for a
\* positive extract-top bound; which error kind a failure carries is the
\* matter of C18).
C15_TerminalStates ==
    /\ <>Terminal
    /\ [][Terminal => pc' = pc]_vars
    /\ [][pc' = "Done" => pc \in {"Stage1Complete", "ExtractInFlight", "Done"}]_vars
    /\ [](pc = "Done" => (ret # <<>> /\ error = <<>>))
    /\ [](pc = "Failed" => (error # <<>> /\ ret = <<>>))
    /\ []((pc = "Failed" /\ extract_top >= 1) => Stage1Failed)

----------------------------------------------------------------------------
(* C18: a response body that does not parse *)

\* C18: when the endpoint answers with a success status and a body that
\* does not parse, the request fails with an error of the typed taxonomy,
\* which the caller catches the way it catches a transport or remote error.
C18_FormatErrorIsTyped ==
    fault = "JSONDecodeError" => (error # <<>> /\ MainCatches(error[1]))

----------------------------------------------------------------------------
(* C16: the fields of a request body *)

\* the body of the request the command sent
SentBody == requests[1].payload

\* the body key that carries parameter k
BodyKey(k) ==
    CASE k = "fmt"        -> "format"
      [] k = "input_text" -> "input"
      [] OTHER            -> k

\* the parameters whose default is None (sent on condition)
ConditionalParams(c) ==
    (DOMAIN Options(c) \cap (IntParams \cup StrParams \cup ListParams \cup DictParams))
        \ (IF c = "crawl" THEN {"timeout"} ELSE {})

\* the optional parameters that have a default value in the signature
DefaultedParams(c) == DOMAIN Options(c) \ ConditionalParams(c)

\* the default values of the signatures
Defaults(c) ==
    CASE c = "search" ->
             [search_depth |-> "basic", topic |-> "general", max_results |-> 5,
              include_answer |-> FALSE, include_raw_content |-> FALSE,
              include_images |-> FALSE]
      [] c = "extract" ->
             [extract_depth |-> "basic", fmt |-> "markdown", include_images |-> FALSE]
      [] c = "crawl" ->
             [max_depth |-> 1, max_breadth |-> 20, limit |-> 50,
              extract_depth |-> "basic", fmt |-> "markdown",
              allow_external |-> TRUE, timeout |-> 150]
      [] c = "map_urls" ->
             [max_depth |-> 1, max_breadth |-> 20, limit |-> 50, allow_external |-> TRUE]
      [] c = "research" -> [model |-> "auto", citation_format |-> "numbered"]
      [] c = "deep_search" -> [topic |-> "general", max_results |-> 5]

\* the body keys of the required arguments and of the literals of the body
FixedKeys(c) ==
    CASE c = "search"      -> {"query"}
      [] c = "extract"     -> {"urls"}
      [] c = "research"    -> {"input", "stream"}
      [] c = "deep_search" -> {"query", "search_depth", "include_answer"}
      [] OTHER             -> {"url"}

----------------------------------------------------------------------------
(* C17: zero and empty option values *)

\* the None-default options the caller supplied with a zero or empty value
ZeroOrEmptySupplied ==
    {k \in ConditionalParams(cmd) \cap DOMAIN args : ~TruthyValue(k, args[k])}

\* C17 as stated: an option supplied with a zero or empty value is emitted in
\* the request body with that exact value, in search, deep_search (where the
\* topic lets days through), extract, crawl and map_urls.
C17_ZeroOrEmptyIsSent ==
    (/\ requests # <<>>
     /\ cmd \in {"search", "deep_search", "extract", "crawl", "map_urls"}
     /\ cmd = "deep_search" => Get(args, "topic", "general") \in {"news", "finance"})
    => \A k \in ZeroOrEmptySupplied :
           k \in DOMAIN SentBody /\ SentBody[k] = args[k]

----------------------------------------------------------------------------
(* C19: the days filter of deep_search *)

\* C19 as stated: the stage-1 body of deep_search holds days if and only if
\* the caller supplied a days value and the topic is news or finance.
C19_DaysIffSuppliedAndNewsTopic ==
    (cmd = "deep_search" /\ requests # <<>>) =>
        ("days" \in DOMAIN SentBody <=>
            ("days" \in DOMAIN args
             /\ Get(args, "topic", "general") \in {"news", "finance"}))

----------------------------------------------------------------------------
(* C20: the URL limit of extract *)

\* C20: extract never sends more than MAX_URLS URLs in one request; a call
\* with more fails with ValueError before any request is issued, and a call
\* with at most MAX_URLS issues exactly one request that carries all the URLs
\* in the order given.
C20_UrlLimit ==
    cmd = "extract" =>
        /\ \A i \in 1..Len(requests) : Len(requests[i].payload["urls"]) <= MAX_URLS
        /\ Len(args["urls"]) > MAX_URLS =>
              /\ requests = <<>>
              /\ pc # "Start" =>
                    (pc = "Raised" /\ error # <<>> /\ error[1].type = "ValueError")
        /\ (Len(args["urls"]) <= MAX_URLS /\ pc # "Start") =>
              /\ Len(requests) = 1
              /\ requests[1].payload["urls"] = args["urls"]

\* a call with one URL more than the limit was refused with nothing sent
C20_Witness ==
    /\ cmd = "extract"
    /\ Len(args["urls"]) = MAX_URLS + 1
    /\ pc = "Raised"
    /\ requests = <<>>
    /\ error # <<>>
    /\ error[1].type = "ValueError"

----------------------------------------------------------------------------
(* C21, C22: the bound of the selection and results without identifier *)

\* C21 as stated: for every integer extract_top the number of identifiers
\* selected for stage 2 is at most max(extract_top, 0), and with
\* extract_top <= 0 nothing is selected and no extraction request is issued.
C21_SelectionBoundedByExtractTop ==
    search_response # <<>> =>
        /\ Len(urls_to_extract) <= Max(extract_top, 0)
        /\ Len(SentUrls) <= Max(extract_top, 0)
        /\ extract_top <= 0 => (urls_to_extract = <<>> /\ ExtractRequests = {})

\* C22 as stated: a stage-1 result whose identifier is missing or empty is
\* never among the identifiers sent to stage 2 and never carries full_content
\* in the returned results, whatever the extraction response holds.
C22_NoIdentifierNeverEnhanced ==
    /\ \A i \in DOMAIN SentUrls : SentUrls[i] # None /\ SentUrls[i] # ""
    /\ (pc = "Done" /\ extract_top >= 1) =>
          \A i \in DOMAIN Returned :
              ~HasId(Stage1Results[i]) => "full_content" \notin DOMAIN Returned[i]

====
